---- MODULE Spec2Model ----
(***************************************************************************)
(* WALT, bisulfite read mapper: the single-end seed-and-verify resolver    *)
(* (SingleEndMapping, GetRegion, LowerBound, UpperBound, C2T) and the      *)
(* option checking of main.                                                *)
(*                                                                         *)
(* Indices are 0-based as in the C++ code; the TLA+ sequences that hold    *)
(* strings and vectors are 1-based, so element i of the code is s[i + 1].  *)
(***************************************************************************)
EXTENDS Integers, Sequences, FiniteSets, TLC

VARIABLES
  (* inputs of SingleEndMapping / GetRegion *)
  orginal_read, genome, hash_table, max_mismatches, seed_length, b,
  (* SingleEndMapping *)
  pc, read, seed_i, read_seed, positions, region, j, best_match,
  (* history of SingleEndMapping: hashes computed, candidates verified *)
  hashed, verified, over_cap,
  (* GetRegion, LowerBound, UpperBound run step by step *)
  rpc, l, u, p, low, high, arg_low, arg_high,
  (* main *)
  opts, mpc, is_paired_end_reads, top_k, exit_code, calls

inputVars == <<orginal_read, genome, hash_table, max_mismatches, seed_length, b>>
mapVars == <<pc, read, seed_i, read_seed, positions, region, j, best_match,
             hashed, verified, over_cap>>
regVars == <<rpc, l, u, p, low, high, arg_low, arg_high>>
mainVars == <<opts, mpc, is_paired_end_reads, top_k, exit_code, calls>>
vars == <<inputVars, mapVars, regVars, mainVars>>

-----------------------------------------------------------------------------
(* Bounds of the model. *)

\* length of the one chromosome of a genome of the mapping runs
MaxChromLen == 8
\* length of the chromosome of the GetRegion runs
RegionChromLen == 8
\* largest max_mismatches of a mapping run
MaxMismatches == 1

-----------------------------------------------------------------------------
(* Seed configuration (mapping.hpp, not part of the sources at hand).      *)

\* number of bases of the primary hash prefix
HASHLEN == 2
\* number of entries of F2SEEDPOSITION the primary hash covers
F2SEEDWIGTH == 2
\* offsets inside the seed window: hash positions, then the discriminators
F2SEEDPOSITION == <<0, 1, 3, 4>>
F2SEEDPOSITION_SIZE == Len(F2SEEDPOSITION)
SeedPos(k) == F2SEEDPOSITION[k + 1]
\* bases a seed window spans
SeedWindow == SeedPos(F2SEEDPOSITION_SIZE - 1) + 1

\* the seed offsets SingleEndMapping tries: seed_i = 0 .. 6
NumSeedOffsets == 7

\* the value an unsigned 32-bit x - 1 wraps to at x = 0; the model's
\* integers are 32-bit signed, so their largest value stands for 2^32 - 1
UINT_MAX == (2 ^ 30 - 1) + 2 ^ 30

\* x - 1 on uint32_t
Decrement(x) == IF x = 0 THEN UINT_MAX ELSE x - 1

-----------------------------------------------------------------------------
(* Bases. *)

Bases == {"A", "C", "G", "T"}

\* the byte value of a base: char comparison in LowerBound / UpperBound
Ord(c) ==
  CASE c = "A" -> 65
    [] c = "C" -> 67
    [] c = "G" -> 71
    [] c = "N" -> 78
    [] c = "T" -> 84

\* the 2-bit code of a base
Code(c) ==
  CASE c = "A" -> 0
    [] c = "C" -> 1
    [] c = "G" -> 2
    [] c = "T" -> 3
    [] c = "N" -> 3

getNT(n) ==
  CASE n = 0 -> "A"
    [] n = 1 -> "C"
    [] n = 2 -> "G"
    [] n = 3 -> "T"

\* for bisulfite sequence mapping, Cs are transfered to Ts
C2T(orginal, read_len) ==
  [i \in 1..read_len |->
     IF orginal[i] = "N" THEN getNT(3)
     ELSE IF orginal[i] = "C" THEN "T"
     ELSE orginal[i]]

\* std::string::substr(pos), pos <= size
Substr(s, pos) ==
  IF pos >= Len(s) THEN <<>> ELSE [i \in 1..(Len(s) - pos) |-> s[i + pos]]

\* direct 2-bit encoding of the F2SEEDWIGTH hash bases of a seed
RECURSIVE HashFrom(_, _)
HashFrom(seed, k) ==
  IF k = 0 THEN 0
  ELSE HashFrom(seed, k - 1) * 4 + Code(seed[SeedPos(k - 1) + 1])

getHashValue(seed) == HashFrom(seed, F2SEEDWIGTH)

-----------------------------------------------------------------------------
(* Genome and positional index. *)

ChromLength(chrom) == Len(chrom)

\* genome[chrom_id].sequence[chrom_pos + off]
RefBase(g, pos, off) == g[pos.chrom_id + 1][pos.chrom_pos + off + 1]

GenomePosition(id, q) == [chrom_id |-> id, chrom_pos |-> q]

\* every position whose whole seed window lies inside its chromosome
IndexedPositions(g) ==
  UNION {{GenomePosition(c - 1, q) :
            q \in {x \in 0..ChromLength(g[c]) : x + SeedWindow <= ChromLength(g[c])}} :
         c \in 1..Len(g)}

RefSeed(g, pos) == [i \in 1..SeedWindow |-> RefBase(g, pos, i - 1)]

\* the order of a bucket: the reference bases at the discriminator offsets
\* F2SEEDPOSITION[F2SEEDWIGTH .. F2SEEDPOSITION_SIZE), then the position
RECURSIVE DiscKey(_, _, _)
DiscKey(g, pos, k) ==
  IF k = F2SEEDWIGTH THEN 0
  ELSE DiscKey(g, pos, k - 1) * 4 + Code(RefBase(g, pos, SeedPos(k - 1)))

LongestChrom(g) ==
  CHOOSE n \in {ChromLength(g[c]) : c \in 1..Len(g)} :
    \A c \in 1..Len(g) : ChromLength(g[c]) <= n

SortKey(g, pos) ==
  (DiscKey(g, pos, F2SEEDPOSITION_SIZE) * Len(g) + pos.chrom_id)
    * (LongestChrom(g) + 1) + pos.chrom_pos

RECURSIVE SortedBucket(_, _)
SortedBucket(g, S) ==
  IF S = {} THEN <<>>
  ELSE LET m == CHOOSE x \in S : \A y \in S : SortKey(g, x) <= SortKey(g, y)
       IN <<m>> \o SortedBucket(g, S \ {m})

\* the bucket of hash value h
Bucket(g, h) ==
  SortedBucket(g, {pos \in IndexedPositions(g) : getHashValue(RefSeed(g, pos)) = h})

\* the hash table of a genome: a key for every hash value some indexed
\* position has
HashTable(g) ==
  [h \in {getHashValue(RefSeed(g, pos)) : pos \in IndexedPositions(g)} |-> Bucket(g, h)]

-----------------------------------------------------------------------------
(* LowerBound, UpperBound, GetRegion. *)

\* LowerBoundStep with c > chr for c >= chr
LowerBoundStepSkipsEqual(lo, hi, chr, cmp_pos, posns, g) ==
  LET mid == (lo + hi) \div 2
      c == RefBase(g, posns[mid + 1], SeedPos(cmp_pos))
  IN IF Ord(c) > Ord(chr) THEN <<lo, mid>> ELSE <<mid + 1, hi>>

\* one iteration of the loop of LowerBound: the new <<low, high>>
LowerBoundStep(lo, hi, chr, cmp_pos, posns, g) ==
  LET mid == (lo + hi) \div 2
      c == RefBase(g, posns[mid + 1], SeedPos(cmp_pos))
  IN IF Ord(c) >= Ord(chr) THEN <<lo, mid>> ELSE <<mid + 1, hi>>

RECURSIVE LowerBound(_, _, _, _, _, _)
LowerBound(lo, hi, chr, cmp_pos, posns, g) ==
  IF lo < hi
    THEN LET s == LowerBoundStep(lo, hi, chr, cmp_pos, posns, g)
         IN LowerBound(s[1], s[2], chr, cmp_pos, posns, g)
    ELSE lo

\* UpperBoundStep with mid rounded down
UpperBoundStepFloorMid(lo, hi, chr, cmp_pos, posns, g) ==
  LET mid == (lo + hi) \div 2
      c == RefBase(g, posns[mid + 1], SeedPos(cmp_pos))
  IN IF Ord(c) <= Ord(chr) THEN <<mid, hi>> ELSE <<lo, Decrement(mid)>>

\* one iteration of the loop of UpperBound: the new <<low, high>>
UpperBoundStep(lo, hi, chr, cmp_pos, posns, g) ==
  LET mid == (lo + hi + 1) \div 2
      c == RefBase(g, posns[mid + 1], SeedPos(cmp_pos))
  IN IF Ord(c) <= Ord(chr) THEN <<mid, hi>> ELSE <<lo, Decrement(mid)>>

RECURSIVE UpperBound(_, _, _, _, _, _)
UpperBound(lo, hi, chr, cmp_pos, posns, g) ==
  IF lo < hi
    THEN LET s == UpperBoundStep(lo, hi, chr, cmp_pos, posns, g)
         IN UpperBound(s[1], s[2], chr, cmp_pos, posns, g)
    ELSE lo

\* the for loop of GetRegion from discriminator k on: the final <<l, u>>
RECURSIVE RegionLoop(_, _, _, _, _, _, _)
RegionLoop(rd, posns, g, slen, ll, uu, k) ==
  IF k < slen
    THEN LET l2 == LowerBound(ll, uu, rd[SeedPos(k) + 1], k, posns, g)
             u2 == UpperBound(l2, uu, rd[SeedPos(k) + 1], k, posns, g)
         IN RegionLoop(rd, posns, g, slen, l2, u2, k + 1)
    ELSE <<ll, uu>>

GetRegion(rd, posns, g, slen) ==
  IF Len(posns) = 0 THEN <<1, 0>>
  ELSE LET lu == RegionLoop(rd, posns, g, slen, 0, Len(posns) - 1, F2SEEDWIGTH)
       IN IF lu[1] > lu[2] THEN <<1, 0>> ELSE lu

-----------------------------------------------------------------------------
(* Values of the variables a specification does not use. *)

NoRead == <<>>
InitialBestMatch(M) == [chrom_id |-> 0, chrom_pos |-> 0, times |-> 0, mismatch |-> M + 1]

MapIdle ==
  /\ pc = "idle" /\ read = NoRead /\ seed_i = 0 /\ j = 0
  /\ region = <<1, 0>> /\ best_match = InitialBestMatch(0)
  /\ hashed = {} /\ verified = {} /\ over_cap = FALSE

RegIdle ==
  /\ rpc = "idle" /\ l = 0 /\ u = 0 /\ p = 0 /\ low = 0 /\ high = 0
  /\ arg_low = 0 /\ arg_high = 0

MainIdle ==
  /\ opts = <<>> /\ mpc = "idle" /\ is_paired_end_reads = FALSE
  /\ top_k = 0 /\ exit_code = 0 /\ calls = 0

-----------------------------------------------------------------------------
(* GetRegion step by step: one action per loop iteration, call and return. *)

GenomeBases == {"A", "T"}
SeedBases == {"A", "G", "T"}

RegionGenomes == {<<c>> : c \in [1..RegionChromLen -> GenomeBases]}

\* the first SeedWindow bases of a read suffix; the bases GetRegion and the
\* hash never read are fixed
RegionSeeds ==
  {s \in [1..SeedWindow -> SeedBases] :
     /\ \A i \in 1..SeedWindow :
          (\A k \in 0..(F2SEEDPOSITION_SIZE - 1) : SeedPos(k) # i - 1) => s[i] = "A"
     /\ \A k \in 1..(F2SEEDWIGTH - 1) : s[SeedPos(k) + 1] \in GenomeBases}

InitRegion ==
  /\ genome \in RegionGenomes
  /\ read_seed \in RegionSeeds
  /\ seed_length \in F2SEEDWIGTH..F2SEEDPOSITION_SIZE
  /\ hash_table = HashTable(genome)
  /\ positions = IF getHashValue(read_seed) \in DOMAIN hash_table
                   THEN hash_table[getHashValue(read_seed)] ELSE <<>>
  /\ orginal_read = NoRead /\ max_mismatches = 0 /\ b = 0
  /\ pc = "idle" /\ read = NoRead /\ seed_i = 0 /\ j = 0
  /\ region = <<1, 0>> /\ best_match = InitialBestMatch(0)
  /\ hashed = {} /\ verified = {} /\ over_cap = FALSE
  /\ rpc = "call" /\ l = 0 /\ u = 0 /\ p = 0 /\ low = 0 /\ high = 0
  /\ arg_low = 0 /\ arg_high = 0
  /\ MainIdle

\* what a step of GetRegion leaves alone
regFrame == <<inputVars, pc, read, seed_i, read_seed, positions, j, best_match,
              hashed, verified, over_cap, mainVars>>

\* region = (1, 0); an empty bucket returns at once
GetRegionEnter ==
  /\ rpc = "call"
  /\ region' = <<1, 0>>
  /\ IF Len(positions) = 0
       THEN rpc' = "done" /\ UNCHANGED <<l, u, p>>
       ELSE rpc' = "loop" /\ l' = 0 /\ u' = Len(positions) - 1 /\ p' = F2SEEDWIGTH
  /\ UNCHANGED <<low, high, arg_low, arg_high>>
  /\ UNCHANGED regFrame

\* l = LowerBound(l, u, ...): the call
LowerBoundCall ==
  /\ rpc = "loop" /\ p < seed_length
  /\ low' = l /\ high' = u /\ arg_low' = l /\ arg_high' = u
  /\ rpc' = "lower"
  /\ UNCHANGED <<region, l, u, p>>
  /\ UNCHANGED regFrame

LowerBoundIter ==
  /\ rpc = "lower" /\ low < high
  /\ LET s == LowerBoundStep(low, high, read_seed[SeedPos(p) + 1], p, positions, genome)
     IN low' = s[1] /\ high' = s[2]
  /\ UNCHANGED <<region, rpc, l, u, p, arg_low, arg_high>>
  /\ UNCHANGED regFrame

\* LowerBound returns low; u = UpperBound(l, u, ...): the call
LowerBoundReturn ==
  /\ rpc = "lower" /\ ~(low < high)
  /\ l' = low
  /\ low' = low /\ high' = u /\ arg_low' = low /\ arg_high' = u
  /\ rpc' = "upper"
  /\ UNCHANGED <<region, u, p>>
  /\ UNCHANGED regFrame

UpperBoundIter ==
  /\ rpc = "upper" /\ low < high
  /\ LET s == UpperBoundStep(low, high, read_seed[SeedPos(p) + 1], p, positions, genome)
     IN low' = s[1] /\ high' = s[2]
  /\ UNCHANGED <<region, rpc, l, u, p, arg_low, arg_high>>
  /\ UNCHANGED regFrame

\* UpperBound returns low; ++p
UpperBoundReturn ==
  /\ rpc = "upper" /\ ~(low < high)
  /\ u' = low
  /\ p' = p + 1
  /\ rpc' = "loop"
  /\ UNCHANGED <<region, l, low, high, arg_low, arg_high>>
  /\ UNCHANGED regFrame

\* after the loop: if (l > u) return; region = (l, u)
GetRegionExit ==
  /\ rpc = "loop" /\ ~(p < seed_length)
  /\ region' = IF l > u THEN region ELSE <<l, u>>
  /\ rpc' = "done"
  /\ UNCHANGED <<l, u, p, low, high, arg_low, arg_high>>
  /\ UNCHANGED regFrame

NextRegion ==
  \/ GetRegionEnter
  \/ LowerBoundCall
  \/ LowerBoundIter
  \/ LowerBoundReturn
  \/ UpperBoundIter
  \/ UpperBoundReturn
  \/ GetRegionExit

SpecRegion == InitRegion /\ [][NextRegion]_vars

\* a call of GetRegion runs on: nothing suspends the thread inside it
SpecRegionLive == SpecRegion /\ WF_vars(NextRegion)

-----------------------------------------------------------------------------
(* SingleEndMapping: one action per iteration of the seed loop and of the  *)
(* candidate loop.                                                         *)

\* TooShort off by one: a read of HASHLEN - 1 bases goes on
TooShortOffByOne(read_len) == read_len + 1 < HASHLEN

\* if (read_len < HASHLEN) return;
TooShort(read_len) == read_len < HASHLEN

\* if (chrom_pos + read_len >= chrom.length) continue;
PastChromEnd(chrom_pos, read_len, chrom_length) == chrom_pos + read_len >= chrom_length

\* mismatches of the read against the chromosome from chrom_pos on
RECURSIVE Hamming(_, _, _, _)
Hamming(chrom, chrom_pos, rd, n) ==
  IF n = 0 THEN 0
  ELSE Hamming(chrom, chrom_pos, rd, n - 1)
         + (IF chrom[chrom_pos + n] # rd[n] THEN 1 ELSE 0)

\* CountMismatch that breaks at num_of_mismatch >= best_match.mismatch
RECURSIVE CountMismatchBreaksEarly(_, _, _, _, _, _)
CountMismatchBreaksEarly(chrom, chrom_pos, rd, k, num, limit) ==
  IF k >= Len(rd) THEN num
  ELSE LET n2 == IF chrom[chrom_pos + k + 1] # rd[k + 1] THEN num + 1 ELSE num
       IN IF n2 >= limit THEN n2
          ELSE CountMismatchBreaksEarly(chrom, chrom_pos, rd, k + 1, n2, limit)

\* the verification loop from read offset k on with `num` mismatches so far:
\* it breaks once num_of_mismatch > best_match.mismatch
RECURSIVE CountMismatch(_, _, _, _, _, _)
CountMismatch(chrom, chrom_pos, rd, k, num, limit) ==
  IF k >= Len(rd) THEN num
  ELSE LET n2 == IF chrom[chrom_pos + k + 1] # rd[k + 1] THEN num + 1 ELSE num
       IN IF n2 > limit THEN n2
          ELSE CountMismatch(chrom, chrom_pos, rd, k + 1, n2, limit)

BestMatch(id, q, t, m) ==
  [chrom_id |-> id, chrom_pos |-> q, times |-> t, mismatch |-> m]

\* the update of best_match by a verified candidate
UpdateBestMatch(bm, id, chrom_pos, num_of_mismatch) ==
  IF num_of_mismatch < bm.mismatch
    THEN BestMatch(id, chrom_pos, 1, num_of_mismatch)
  ELSE IF bm.mismatch = num_of_mismatch
    THEN IF bm.chrom_id # id \/ bm.chrom_pos # chrom_pos
           THEN BestMatch(id, chrom_pos, bm.times + 1, bm.mismatch)
           ELSE bm
  ELSE bm

\* The bytes getHashValue and GetRegion read at the seed offsets of a suffix:
\* the suffix's own bases, and at an offset at or past its end whatever byte
\* lies there, taken to be a base.  C and G compare alike against the bases
\* of the genomes below, so G stands for both.  Offsets that are not read
\* stay "A".
PastEndBases == {"A", "G", "T"}

SeedMemory(suffix, slen) ==
  LET past == {SeedPos(k) + 1 : k \in 0..(slen - 1)} \ (1..Len(suffix))
  IN {[i \in 1..SeedWindow |->
         IF i <= Len(suffix) THEN suffix[i]
         ELSE IF i \in past THEN f[i] ELSE "A"] : f \in [past -> PastEndBases]}

\* reads: shorter than HASHLEN, or long enough for substr(seed_i) at every
\* seed offset
ReadLen == NumSeedOffsets - 1
MapReads ==
  UNION {[1..n -> {"A", "C", "N"}] : n \in 0..(HASHLEN - 1)} \cup
  {r \in [1..ReadLen -> {"A", "C", "N"}] :
     /\ r[1] = "A"
     /\ r[ReadLen] # "C"
     /\ \A i \in 2..(ReadLen - 1) : r[i] # "N"}

MapGenomes == {<<c>> : c \in [1..MaxChromLen -> GenomeBases]}

\* the candidate cap b handed to the mapping functions
BucketCap == 1

Init ==
  /\ orginal_read \in MapReads
  /\ genome \in MapGenomes
  /\ hash_table = HashTable(genome)
  /\ max_mismatches \in 0..MaxMismatches
  /\ seed_length = F2SEEDPOSITION_SIZE
  /\ b = BucketCap
  /\ pc = "start" /\ read = NoRead /\ seed_i = 0 /\ j = 0
  /\ read_seed = <<>> /\ positions = <<>>
  /\ region = <<1, 0>> /\ best_match = InitialBestMatch(max_mismatches)
  /\ hashed = {} /\ verified = {} /\ over_cap = FALSE
  /\ RegIdle
  /\ MainIdle

mapFrame == <<inputVars, read_seed, regVars, mainVars>>

\* the length check and C2T
Start ==
  /\ pc = "start"
  /\ IF TooShort(Len(orginal_read))
       THEN pc' = "done" /\ read' = read
       ELSE pc' = "seed" /\ read' = C2T(orginal_read, Len(orginal_read))
  /\ UNCHANGED <<seed_i, positions, region, j, best_match, hashed, verified, over_cap>>
  /\ UNCHANGED mapFrame

\* the results of one seed offset: no bucket, or a bucket and its region
SeedOutcomes(suffix, slen, table, g) ==
  {IF getHashValue(mem) \in DOMAIN table
     THEN [found |-> TRUE, bucket |-> table[getHashValue(mem)],
           region |-> GetRegion(mem, table[getHashValue(mem)], g, slen)]
     ELSE [found |-> FALSE, bucket |-> <<>>, region |-> <<1, 0>>] :
   mem \in SeedMemory(suffix, slen)}

\* one seed offset: substr, getHashValue, hash_table.find, GetRegion
Seed ==
  /\ pc = "seed" /\ seed_i < NumSeedOffsets
  /\ hashed' = hashed \cup {seed_i}
  /\ \E out \in SeedOutcomes(Substr(read, seed_i), seed_length, hash_table, genome) :
       IF ~out.found
         THEN /\ pc' = "seed" /\ seed_i' = seed_i + 1
              /\ UNCHANGED <<positions, region, j>>
         ELSE /\ pc' = "cand" /\ seed_i' = seed_i
              /\ positions' = out.bucket
              /\ region' = out.region
              /\ j' = out.region[1]
  /\ UNCHANGED <<read, best_match, verified, over_cap>>
  /\ UNCHANGED mapFrame

\* candidates in region (first, second)
RegionSize(r) == IF r[1] > r[2] THEN 0 ELSE r[2] - r[1] + 1

\* one candidate of the region: the two skips, the verification, the update
Candidate ==
  /\ pc = "cand" /\ j <= region[2]
  /\ LET cand == positions[j + 1]
         chrom == genome[cand.chrom_id + 1]
         chrom_pos == cand.chrom_pos - seed_i
     IN IF cand.chrom_pos < seed_i
          THEN UNCHANGED <<best_match, verified, over_cap>>
        ELSE IF PastChromEnd(chrom_pos, Len(read), ChromLength(chrom))
          THEN UNCHANGED <<best_match, verified, over_cap>>
        ELSE /\ best_match' =
                  UpdateBestMatch(best_match, cand.chrom_id, chrom_pos,
                    CountMismatch(chrom, chrom_pos, read, 0, 0, best_match.mismatch))
             /\ verified' = verified \cup
                  {[chrom_id |-> cand.chrom_id, chrom_pos |-> chrom_pos,
                    mm |-> Hamming(chrom, chrom_pos, read, Len(read))]}
             /\ over_cap' = (over_cap \/ RegionSize(region) > b)
  /\ j' = j + 1
  /\ UNCHANGED <<pc, read, seed_i, positions, region, hashed>>
  /\ UNCHANGED mapFrame

\* the candidate loop ends: the iteration's locals (it, region, j) go out of
\* scope, ++seed_i
CandidatesDone ==
  /\ pc = "cand" /\ ~(j <= region[2])
  /\ pc' = "seed" /\ seed_i' = seed_i + 1
  /\ positions' = <<>> /\ region' = <<1, 0>> /\ j' = 0
  /\ UNCHANGED <<read, best_match, hashed, verified, over_cap>>
  /\ UNCHANGED mapFrame

\* the seed loop ends: SingleEndMapping returns
Return ==
  /\ pc = "seed" /\ ~(seed_i < NumSeedOffsets)
  /\ pc' = "done"
  /\ UNCHANGED <<read, seed_i, positions, region, j, best_match, hashed, verified,
                 over_cap>>
  /\ UNCHANGED mapFrame

Next ==
  \/ Start
  \/ Seed
  \/ Candidate
  \/ CandidatesDone
  \/ Return

Spec == Init /\ [][Next]_vars

-----------------------------------------------------------------------------
(* main: option parsing results, the configuration checks, the mapping.    *)

EXIT_SUCCESS == 0
EXIT_FAILURE == 1
\* uint32_t b = 5000; uint32_t top_k = 50;
DefaultBucket == 5000
DefaultTopK == 50
\* the range of top_k on a paired-end run
MinTopK == 2
MaxTopK == 300

\* files of one comma-separated option
MaxFiles == 2

\* an option that was not given: a flag, a number
NotGiven == "none"
NoValue == 0 - 1

\* a list of read files: for each file whether its suffix is .fastq or .fq;
\* the empty list is an option that was not given
FileLists == UNION {[1..n -> BOOLEAN] : n \in 0..MaxFiles}

\* what the command line holds
Options ==
  [index_ok : BOOLEAN,
   reads_file_s : FileLists, reads_file_p1 : FileLists, reads_file_p2 : FileLists,
   bucket : {NoValue, 1}, topk : {NoValue, 1, MinTopK, MaxTopK + 1},
   early : {NotGiven, "help", "about", "missing"},
   leftover : BOOLEAN]

InitMain ==
  /\ opts \in Options
  /\ mpc = "parse" /\ is_paired_end_reads = FALSE
  /\ top_k = DefaultTopK /\ b = DefaultBucket
  /\ exit_code = EXIT_SUCCESS /\ calls = 0
  /\ orginal_read = NoRead /\ genome = <<>> /\ hash_table = <<>>
  /\ max_mismatches = 0 /\ seed_length = 0
  /\ read_seed = <<>> /\ positions = <<>>
  /\ MapIdle
  /\ RegIdle

mainFrame == <<orginal_read, genome, hash_table, max_mismatches, seed_length, b,
               mapVars, regVars, opts>>

\* both "bucket" and "topk" are registered on top_k, "topk" after "bucket";
\* options are read in the order they were registered
ParsedTopK(o) ==
  IF o.topk # NoValue THEN o.topk
  ELSE IF o.bucket # NoValue THEN o.bucket
  ELSE DefaultTopK

AllValid(files) == \A i \in 1..Len(files) : files[i]

Exit(code) == mpc' = "exit" /\ exit_code' = code

\* opt_parse.parse, then help, about and missing option: all EXIT_SUCCESS
ParseOptions ==
  /\ mpc = "parse"
  /\ top_k' = ParsedTopK(opts)
  /\ IF opts.early # NotGiven
       THEN Exit(EXIT_SUCCESS)
       ELSE mpc' = "index" /\ exit_code' = exit_code
  /\ UNCHANGED <<is_paired_end_reads, calls>>
  /\ UNCHANGED mainFrame

\* the suffix of the index file
CheckIndex ==
  /\ mpc = "index"
  /\ IF ~opts.index_ok
       THEN Exit(EXIT_FAILURE)
       ELSE mpc' = "mode" /\ exit_code' = exit_code
  /\ UNCHANGED <<is_paired_end_reads, top_k, calls>>
  /\ UNCHANGED mainFrame

\* -r alone, or -1 and -2 without -r
CheckMode ==
  /\ mpc = "mode"
  /\ IF opts.reads_file_s # <<>> /\ opts.reads_file_p1 = <<>> /\ opts.reads_file_p2 = <<>>
       THEN is_paired_end_reads' = FALSE /\ mpc' = "leftover" /\ exit_code' = exit_code
     ELSE IF opts.reads_file_s = <<>> /\ opts.reads_file_p1 # <<>>
               /\ opts.reads_file_p2 # <<>>
       THEN is_paired_end_reads' = TRUE /\ mpc' = "leftover" /\ exit_code' = exit_code
     ELSE is_paired_end_reads' = is_paired_end_reads /\ Exit(EXIT_FAILURE)
  /\ UNCHANGED <<top_k, calls>>
  /\ UNCHANGED mainFrame

\* leftover arguments: the help message and EXIT_SUCCESS
CheckLeftover ==
  /\ mpc = "leftover"
  /\ IF opts.leftover
       THEN Exit(EXIT_SUCCESS)
       ELSE mpc' = "files" /\ exit_code' = exit_code
  /\ UNCHANGED <<is_paired_end_reads, top_k, calls>>
  /\ UNCHANGED mainFrame

\* the suffixes of the -r files, or the number of mate files and the
\* suffixes of the -1 files
CheckFiles ==
  /\ mpc = "files"
  /\ IF ~is_paired_end_reads
       THEN IF AllValid(opts.reads_file_s)
              THEN mpc' = "mate2" /\ exit_code' = exit_code
              ELSE Exit(EXIT_FAILURE)
     ELSE IF Len(opts.reads_file_p1) # Len(opts.reads_file_p2)
       THEN Exit(EXIT_FAILURE)
     ELSE IF AllValid(opts.reads_file_p1)
       THEN mpc' = "mate2" /\ exit_code' = exit_code
     ELSE Exit(EXIT_FAILURE)
  /\ UNCHANGED <<is_paired_end_reads, top_k, calls>>
  /\ UNCHANGED mainFrame

\* v_reads_file_p2 is empty on a single-end run
MateTwoFiles == IF is_paired_end_reads THEN opts.reads_file_p2 ELSE <<>>

\* the output names, then the suffixes of the -2 files
CheckMateTwo ==
  /\ mpc = "mate2"
  /\ IF AllValid(MateTwoFiles)
       THEN mpc' = "topk" /\ exit_code' = exit_code
       ELSE Exit(EXIT_FAILURE)
  /\ UNCHANGED <<is_paired_end_reads, top_k, calls>>
  /\ UNCHANGED mainFrame

\* top_k in [2, 300] on a paired-end run
CheckTopK ==
  /\ mpc = "topk"
  /\ IF is_paired_end_reads /\ top_k < MinTopK
       THEN Exit(EXIT_FAILURE)
     ELSE IF is_paired_end_reads /\ top_k > MaxTopK
       THEN Exit(EXIT_FAILURE)
     ELSE mpc' = "info" /\ exit_code' = exit_code
  /\ UNCHANGED <<is_paired_end_reads, top_k, calls>>
  /\ UNCHANGED mainFrame

\* ShowGenomeInfo(index_file)
ShowGenomeInfo ==
  /\ mpc = "info"
  /\ mpc' = "map"
  /\ UNCHANGED <<is_paired_end_reads, top_k, exit_code, calls>>
  /\ UNCHANGED mainFrame

\* the files the mapping loop runs over
FilesToMap == IF is_paired_end_reads THEN opts.reads_file_p1 ELSE opts.reads_file_s

\* ProcessSingledEndReads / ProcessPairedEndReads on the next file
ProcessReads ==
  /\ mpc = "map" /\ calls < Len(FilesToMap)
  /\ calls' = calls + 1
  /\ UNCHANGED <<mpc, is_paired_end_reads, top_k, exit_code>>
  /\ UNCHANGED mainFrame

\* SMITHLABException or bad_alloc out of ShowGenomeInfo or a Process call
Throw ==
  /\ mpc \in {"info", "map"}
  /\ Exit(EXIT_FAILURE)
  /\ UNCHANGED <<is_paired_end_reads, top_k, calls>>
  /\ UNCHANGED mainFrame

\* every file is mapped: return EXIT_SUCCESS
Finish ==
  /\ mpc = "map" /\ ~(calls < Len(FilesToMap))
  /\ Exit(EXIT_SUCCESS)
  /\ UNCHANGED <<is_paired_end_reads, top_k, calls>>
  /\ UNCHANGED mainFrame

NextMain ==
  \/ ParseOptions
  \/ CheckIndex
  \/ CheckMode
  \/ CheckLeftover
  \/ CheckFiles
  \/ CheckMateTwo
  \/ CheckTopK
  \/ ShowGenomeInfo
  \/ ProcessReads
  \/ Throw
  \/ Finish

SpecMain == InitMain /\ [][NextMain]_vars

-----------------------------------------------------------------------------
(* Claims about GetRegion (SpecRegion, SpecRegionLive).                    *)

BucketIndices == 0..(Len(positions) - 1)

\* bucket entry k has the suffix's base at every discriminator offset
MatchesSeed(k) ==
  \A q \in F2SEEDWIGTH..(seed_length - 1) :
    RefBase(genome, positions[k + 1], SeedPos(q)) = read_seed[SeedPos(q) + 1]

\* C4: seeder completeness. Once GetRegion has returned for a non-empty
\* sorted bucket, every bucket entry that matches the suffix at all the
\* discriminator offsets lies inside the region [first, second].
C4_RegionHoldsEveryMatch ==
  (rpc = "done" /\ Len(positions) > 0) =>
    \A k \in BucketIndices :
      MatchesSeed(k) => (region[1] <= k /\ k <= region[2])

C4_Witness ==
  /\ rpc = "done" /\ Len(positions) >= 3 /\ seed_length = F2SEEDPOSITION_SIZE
  /\ \E k \in BucketIndices : MatchesSeed(k)
  /\ \E k \in BucketIndices : ~MatchesSeed(k)
  /\ region[1] > 0

\* C9: GetRegion terminates for every bucket, the empty one and the
\* one-element one included; while LowerBound or UpperBound runs, low and
\* high stay within the bounds it was called with (high = mid - 1 never
\* wraps), and a one-element bucket is searched to its own index 0.
C9_SearchTerminatesInRange ==
  /\ <>(rpc = "done")
  /\ [](rpc \in {"lower", "upper"} =>
          (arg_low <= low /\ low <= high /\ high <= arg_high))
  /\ []((rpc = "done" /\ Len(positions) = 1) => region = <<0, 0>>)
  /\ []((rpc = "done" /\ Len(positions) = 0) => region = <<1, 0>>)

C9_Witness ==
  /\ rpc = "done" /\ Len(positions) = 1 /\ seed_length = F2SEEDPOSITION_SIZE
  /\ region = <<0, 0>>

\* C10: seeder soundness. Once GetRegion has returned for a non-empty sorted
\* bucket, every entry inside [first, second] matches the suffix at all the
\* discriminator offsets, and when no entry matches the region is empty
\* (first > second).
C10_RegionHoldsOnlyMatches ==
  (rpc = "done" /\ Len(positions) > 0) =>
    /\ \A k \in BucketIndices :
         (region[1] <= k /\ k <= region[2]) => MatchesSeed(k)
    /\ (\A k \in BucketIndices : ~MatchesSeed(k)) => region[1] > region[2]

-----------------------------------------------------------------------------
(* Claims about SingleEndMapping (Spec).                                   *)

\* the alignments of a read of read_len bases that fit a chromosome
AlignStarts(g, read_len) ==
  UNION {{GenomePosition(c - 1, q) :
            q \in {x \in 0..ChromLength(g[c]) : x + read_len <= ChromLength(g[c])}} :
         c \in 1..Len(g)}

\* Hamming distance of the converted read to the reference at pos
Distance(pos) ==
  Hamming(genome[pos.chrom_id + 1], pos.chrom_pos,
          C2T(orginal_read, Len(orginal_read)), Len(orginal_read))

Returned == pc = "done"

\* C1: a read of at least HASHLEN bases with exactly one reference position
\* within max_mismatches of the converted read (a position whose alignment
\* ends at the last base of the chromosome included) ends with times = 1
\* and that position stored.
C1_UniqueHitReported ==
  (Returned /\ Len(orginal_read) >= HASHLEN) =>
    \A pos \in AlignStarts(genome, Len(orginal_read)) :
      (/\ Distance(pos) <= max_mismatches
       /\ \A other \in AlignStarts(genome, Len(orginal_read)) \ {pos} :
            Distance(other) > max_mismatches)
      => /\ best_match.times = 1
         /\ best_match.chrom_id = pos.chrom_id
         /\ best_match.chrom_pos = pos.chrom_pos

\* C2: when SingleEndMapping has returned, times is the number of distinct
\* positions among the verified candidates whose mismatch count is the
\* final best_match.mismatch.
C2_TimesCountsDistinct ==
  Returned =>
    best_match.times =
      Cardinality({<<v.chrom_id, v.chrom_pos>> :
                     v \in {w \in verified : w.mm = best_match.mismatch}})

\* C3, as claimed: SingleEndMapping ends with times >= 1 only if some
\* verified candidate has at most max_mismatches mismatches, and then
\* best_match.mismatch <= max_mismatches.
C3_OverLimitNeverChanges ==
  (Returned /\ best_match.times >= 1) =>
    /\ \E v \in verified : v.mm <= max_mismatches
    /\ best_match.mismatch <= max_mismatches

\* C3, amended: best_match.mismatch never exceeds max_mismatches + 1; it is
\* at most max_mismatches only if the stored position is a verified
\* candidate with exactly that many mismatches, no verified candidate has
\* fewer, and times >= 1; a record with times >= 1 at mismatch =
\* max_mismatches + 1 comes from a verified candidate with exactly
\* max_mismatches + 1 mismatches.
C3_RecordWithinLimitHasCandidate ==
  /\ best_match.mismatch <= max_mismatches + 1
  /\ best_match.mismatch <= max_mismatches =>
       /\ best_match.times >= 1
       /\ [chrom_id |-> best_match.chrom_id, chrom_pos |-> best_match.chrom_pos,
           mm |-> best_match.mismatch] \in verified
       /\ \A v \in verified : v.mm >= best_match.mismatch
  /\ (best_match.mismatch = max_mismatches + 1 /\ best_match.times >= 1) =>
       \E v \in verified : v.mm = max_mismatches + 1

C3_Witness ==
  /\ Returned /\ max_mismatches = 0
  /\ best_match.mismatch = 0 /\ best_match.times >= 1
  /\ \E v \in verified : v.mm > max_mismatches

\* C5: a read shorter than HASHLEN makes SingleEndMapping return with no
\* hash computed, no candidate verified and the best-match record as it was
\* passed in (times = 0).
C5_ShortReadUntouched ==
  (Returned /\ Len(orginal_read) < HASHLEN) =>
    /\ best_match = InitialBestMatch(max_mismatches)
    /\ hashed = {}
    /\ verified = {}

C5_Witness ==
  /\ Returned /\ Len(orginal_read) = HASHLEN - 1
  /\ best_match.times = 0

\* C7: no candidate is verified at a seed offset whose refined region holds
\* more than b candidates.
C7_OverCapRegionSkipped == ~over_cap

\* C8: no hash is computed at a seed offset whose suffix is shorter than
\* HASHLEN, and a read of at least HASHLEN bases is seeded at offset 0.
C8_ShortSuffixSkipped ==
  /\ \A i \in hashed : Len(read) - i >= HASHLEN
  /\ (Returned /\ Len(orginal_read) >= HASHLEN) => 0 \in hashed

-----------------------------------------------------------------------------
(* Claims about main (SpecMain).                                           *)

PairedRun(o) ==
  o.reads_file_s = <<>> /\ o.reads_file_p1 # <<>> /\ o.reads_file_p2 # <<>>

SingleRun(o) ==
  o.reads_file_s # <<>> /\ o.reads_file_p1 = <<>> /\ o.reads_file_p2 = <<>>

\* the configuration errors of a run that asks for no help and misses no
\* required option: index suffix, reads suffix, options combined, numbers
\* of mate files, top-k out of range on a paired-end run
ConfigError(o) ==
  /\ o.early = NotGiven
  /\ \/ ~o.index_ok
     \/ ~AllValid(o.reads_file_s) \/ ~AllValid(o.reads_file_p1)
     \/ ~AllValid(o.reads_file_p2)
     \/ ~(PairedRun(o) \/ SingleRun(o))
     \/ PairedRun(o) /\ Len(o.reads_file_p1) # Len(o.reads_file_p2)
     \/ PairedRun(o) /\ o.topk # NoValue /\ (o.topk < MinTopK \/ o.topk > MaxTopK)

\* C6: a run with a configuration error exits with a non-zero code, and
\* no Process call was made before the exit.
C6_ConfigErrorExitsNonZero ==
  (mpc = "exit" /\ ConfigError(opts)) => (exit_code # EXIT_SUCCESS /\ calls = 0)

====
